---- MODULE Spec2Model ----
(***************************************************************************)
(* Model of fpush: the process start-up and the XMPP connection loop of    *)
(* fpush/src/main.rs, the Acrobits push backend of fpush-acrobits          *)
(* (config.rs, push.rs) and the demo endpoint POST /fetch_messages of      *)
(* fpush/src/http_server.rs.                                               *)
(***************************************************************************)
EXTENDS Integers, Sequences, FiniteSets, TLC

(***************************************************************************)
(* Bounds of the model.                                                    *)
(***************************************************************************)
\* Largest number of push modules in the settings file.
MaxBackends == 2
\* Largest configured timeout().xmppconnection_error(), in clock ticks.
MaxBackoff == 2
\* Number of most recent events of the connection loop that are remembered.
LogLen == 4
\* The counter of connect attempts saturates here.
MaxAttempts == 3
\* Number of send calls on the one backend instance.
MaxSends == 2

(***************************************************************************)
(* Program constants.                                                      *)
(***************************************************************************)
\* AcrobitsResponse.code is a u16.
MaxCode == 65535

VARIABLES
    \* ---- main.rs ----
    pc,            \* position of main()
    settingsFile,  \* what load_config finds on disk
    pushModules,   \* settings.push_modules(): sequence of AcrobitsConfig
    backoff,       \* settings.timeout().xmppconnection_error()
    pushImpl,      \* the Arc<FpushPush>: sequence of backend instances
    httpSpawned,   \* the HTTP server task has been spawned
    liveConns,     \* number of Component values alive
    loops,         \* number of message_loop_main_thread calls running
    sleepLeft,     \* ticks left of the running tokio::time::sleep
    sleptFor,      \* ticks the running sleep has lasted
    attempts,      \* calls of init_component_connection (saturating)
    log,           \* the last LogLen events of the connection loop
    \* ---- fpush-acrobits: one backend and the send calls in flight on it ----
    cfg,           \* the AcrobitsConfig handed to FpushAcrobits::init
    initRes,       \* <<>> before init, then <<its PushResult<Self>>>
    instance,      \* <<>> or <<the FpushAcrobits value>>
    sends,         \* the send calls: position, token, POSTs, response, result
    \* ---- http_server.rs ----
    httpReq,       \* <<>> or <<the request being handled>>
    httpRes        \* <<>> or <<the response to it>>

mainVars == <<pc, settingsFile, pushModules, backoff, pushImpl, httpSpawned,
              liveConns, loops, sleepLeft, sleptFor, attempts, log>>

beVars == <<cfg, initRes, instance, sends>>

httpVars == <<httpReq, httpRes>>

vars == <<mainVars, beVars, httpVars>>

Min(a, b) == IF a < b THEN a ELSE b

(***************************************************************************)
(* fpush-acrobits/src/config.rs                                            *)
(***************************************************************************)
DefaultEndpoint == "https://pnm.cloudsoftphone.com/pnm2/send"

AcrobitsConfigNew(endpoint, app_id) == [endpoint |-> endpoint, app_id |-> app_id]

AcrobitsConfigDefault == [endpoint |-> DefaultEndpoint, app_id |-> ""]

Endpoints == {DefaultEndpoint, "https://push.example/send"}
AppIds == {"", "app-1"}

\* The configurations the settings file can hold.
Configs == {AcrobitsConfigNew(e, a) : e \in Endpoints, a \in AppIds}

(***************************************************************************)
(* fpush-acrobits/src/push.rs: FpushAcrobits::init                         *)
(***************************************************************************)
Ok(v) == [ok |-> TRUE, val |-> v]
Err(e) == [ok |-> FALSE, err |-> e]

\* An init that does not look at the application identifier.
FpushAcrobitsInitNoCheck(config) ==
    Ok([client |-> "reqwest::Client", config |-> config])

\* push.rs 34-46.
FpushAcrobitsInit(config) ==
    IF config.app_id = ""
    THEN Err("CertLoading")
    ELSE Ok([client |-> "reqwest::Client", config |-> config])

(***************************************************************************)
(* fpush-acrobits/src/push.rs: FpushAcrobits::send                         *)
(***************************************************************************)
\* PushResult<()>: Ok(()) or Err(PushError); code is the payload of Unknown.
PushOk == [ok |-> TRUE, err |-> "", code |-> 0]
PushErr(e) == [ok |-> FALSE, err |-> e, code |-> 0]
PushErrUnknown(c) == [ok |-> FALSE, err |-> "Unknown", code |-> c]

Tokens == {"tok-1", "tok-2"}
Texts == {"ok", "gone"}

\* What the provider's answer to one POST can be: a request error of reqwest
\* (net), or a body that is JSON or not, whose code field is a number and
\* whose response field is present (<<text>>) or missing (<<>>).
NetErrors == {"timeout", "connect", "other"}
WireResponse(net, json, code, text) ==
    [net |-> net, json |-> json, code |-> code, text |-> text]

\* The codes the provider answers with in the runs of concurrent sends.
SomeCodes == {-1, 200, 201, 400, 404, 500, MaxCode + 1}

Responses ==
    {WireResponse(n, FALSE, 0, <<>>) : n \in NetErrors}
        \cup {WireResponse("ok", FALSE, 0, <<>>)}
        \cup {WireResponse("ok", TRUE, c, <<"ok">>) : c \in SomeCodes}
        \cup {WireResponse("ok", TRUE, 200, <<>>)}

\* response.json::<AcrobitsResponse>(): the body must be JSON with a code that
\* fits u16 and a response string.
ParseAcrobitsResponse(r) ==
    IF r.json /\ r.code \in 0..MaxCode /\ r.text # <<>>
    THEN Ok([code |-> r.code, response |-> r.text[1]])
    ELSE Err("decode")

\* A mapping that takes every 2xx code for a delivery.
MapTreats2xxAsOk(code) ==
    CASE code \in 200..299 -> PushOk
      [] code = 404 -> PushErr("TokenBlocked")
      [] code = 400 -> PushErr("PushEndpointPersistent")
      [] code = 500 -> PushErr("PushEndpointTmp")
      [] OTHER -> PushErrUnknown(code)

map_acrobits_response_to_error(code) ==
    CASE code = 200 -> PushOk
      [] code = 404 -> PushErr("TokenBlocked")
      [] code = 400 -> PushErr("PushEndpointPersistent")
      [] code = 500 -> PushErr("PushEndpointTmp")
      [] OTHER -> PushErrUnknown(code)

\* A send whose request errors other than timeout and connect are permanent.
SendResultOtherIsPersistent(r) ==
    IF r.net = "ok"
    THEN IF ParseAcrobitsResponse(r).ok
         THEN map_acrobits_response_to_error(ParseAcrobitsResponse(r).val.code)
         ELSE PushErr("PushEndpointTmp")
    ELSE IF r.net \in {"timeout", "connect"}
         THEN PushErr("PushEndpointTmp")
         ELSE PushErr("PushEndpointPersistent")

\* push.rs 67-91: the result of send for the provider's answer r.
SendResult(r) ==
    IF r.net = "ok"
    THEN IF ParseAcrobitsResponse(r).ok
         THEN map_acrobits_response_to_error(ParseAcrobitsResponse(r).val.code)
         ELSE PushErr("PushEndpointTmp")
    ELSE IF r.net \in {"timeout", "connect"}
         THEN PushErr("PushEndpointTmp")
         ELSE PushErr("PushEndpointTmp")

\* push.rs 53-58: the request payload.
AcrobitsRequest(app_id, device_token) ==
    [verb |-> "NotifyGenericTextMessage", AppId |-> app_id,
     DeviceToken |-> device_token, Message |-> "New Message"]

Sends == 1..MaxSends

IdleSend == [pc |-> "idle", token |-> "", posts |-> <<>>, resp |-> <<>>,
             result |-> <<>>]

\* The caller constructs the backend.
BackendInit ==
    /\ initRes = <<>>
    /\ initRes' = <<FpushAcrobitsInit(cfg)>>
    /\ instance' = IF FpushAcrobitsInit(cfg).ok
                   THEN <<FpushAcrobitsInit(cfg).val>>
                   ELSE <<>>
    /\ UNCHANGED <<cfg, sends>>
    /\ UNCHANGED <<mainVars, httpVars>>

\* A send that builds its request from the token of a send already in flight
\* (a request buffer shared through the instance).
SendPostSharedRequest(i, token) ==
    /\ instance # <<>>
    /\ sends[i].pc = "idle"
    /\ LET busy == {j \in Sends : sends[j].pc = "awaiting"}
           tok == IF busy = {} THEN token
                  ELSE sends[CHOOSE j \in busy : TRUE].token
       IN sends' = [sends EXCEPT ![i] =
              [@ EXCEPT !.pc = "awaiting", !.token = token,
                        !.posts = Append(@,
                            [url |-> instance[1].config.endpoint,
                             json |-> AcrobitsRequest(
                                          instance[1].config.app_id, tok)])]]
    /\ UNCHANGED <<cfg, initRes, instance>>
    /\ UNCHANGED <<mainVars, httpVars>>

\* push.rs 51-67: send(token) builds the request and POSTs it to the
\* configured endpoint, then waits for the answer.
SendPost(i, token) ==
    /\ instance # <<>>
    /\ sends[i].pc = "idle"
    /\ sends' = [sends EXCEPT ![i] =
           [@ EXCEPT !.pc = "awaiting", !.token = token,
                     !.posts = Append(@,
                         [url |-> instance[1].config.endpoint,
                          json |-> AcrobitsRequest(
                                       instance[1].config.app_id, token)])]]
    /\ UNCHANGED <<cfg, initRes, instance>>
    /\ UNCHANGED <<mainVars, httpVars>>

\* The provider, or the network, answers the POST of send i.
ProviderAnswers(i, r) ==
    /\ sends[i].pc = "awaiting"
    /\ sends[i].resp = <<>>
    /\ sends' = [sends EXCEPT ![i] = [@ EXCEPT !.resp = <<r>>]]
    /\ UNCHANGED <<cfg, initRes, instance>>
    /\ UNCHANGED <<mainVars, httpVars>>

\* push.rs 67-91: send i resumes with the answer and returns its result.
SendFinish(i) ==
    /\ sends[i].pc = "awaiting"
    /\ sends[i].resp # <<>>
    /\ sends' = [sends EXCEPT ![i] =
           [@ EXCEPT !.pc = "done", !.result = <<SendResult(sends[i].resp[1])>>]]
    /\ UNCHANGED <<cfg, initRes, instance>>
    /\ UNCHANGED <<mainVars, httpVars>>

NextBackend ==
    \/ BackendInit
    \/ \E i \in Sends, token \in Tokens : SendPost(i, token)
    \/ \E i \in Sends, r \in Responses : ProviderAnswers(i, r)
    \/ \E i \in Sends : SendFinish(i)

NextCodes == \E i \in Sends : SendFinish(i)

(***************************************************************************)
(* fpush/src/main.rs                                                       *)
(***************************************************************************)
SeqsUpTo(S, n) == UNION {[1..k -> S] : k \in 0..n}

Push(l, e) == IF Len(l) < LogLen THEN Append(l, e) ELSE Append(Tail(l), e)

InitMain ==
    /\ pc = "load_config"
    /\ settingsFile \in {"ok", "missing", "malformed"}
    /\ pushModules \in SeqsUpTo(Configs, MaxBackends)
    /\ backoff \in 0..MaxBackoff
    /\ pushImpl = <<>>
    /\ httpSpawned = FALSE
    /\ liveConns = 0
    /\ loops = 0
    /\ sleepLeft = 0
    /\ sleptFor = 0
    /\ attempts = 0
    /\ log = <<>>

\* A load_config error that is logged and ignored.
LoadConfigIgnoresError ==
    /\ pc = "load_config"
    /\ UNCHANGED <<beVars, httpVars>>
    /\ pc' = "init_push"
    /\ UNCHANGED <<settingsFile, pushModules, backoff, pushImpl, httpSpawned,
                   liveConns, loops, sleepLeft, sleptFor, attempts, log>>

\* main.rs 31-39: load the settings or panic.
LoadConfig ==
    /\ pc = "load_config"
    /\ UNCHANGED <<beVars, httpVars>>
    /\ pc' = IF settingsFile = "ok" THEN "init_push" ELSE "panic"
    /\ UNCHANGED <<settingsFile, pushModules, backoff, pushImpl, httpSpawned,
                   liveConns, loops, sleepLeft, sleptFor, attempts, log>>

\* FpushPush::new (crate fpush-push): every configured module is initialised;
\* a module that fails init aborts the process.
FpushPushNew ==
    /\ pc = "init_push"
    /\ UNCHANGED <<beVars, httpVars>>
    /\ IF \A k \in DOMAIN pushModules : FpushAcrobitsInit(pushModules[k]).ok
       THEN /\ pushImpl' = [k \in DOMAIN pushModules |->
                               FpushAcrobitsInit(pushModules[k]).val]
            /\ pc' = "spawn_http"
       ELSE /\ pushImpl' = pushImpl
            /\ pc' = "panic"
    /\ UNCHANGED <<settingsFile, pushModules, backoff, httpSpawned,
                   liveConns, loops, sleepLeft, sleptFor, attempts, log>>

\* main.rs 44-49: the HTTP server runs in a task of its own.
SpawnHttp ==
    /\ pc = "spawn_http"
    /\ UNCHANGED <<beVars, httpVars>>
    /\ httpSpawned' = TRUE
    /\ pc' = "connect"
    /\ UNCHANGED <<settingsFile, pushModules, backoff, pushImpl,
                   liveConns, loops, sleepLeft, sleptFor, attempts, log>>

\* A failed connect that retries at once, without the sleep.
ConnectErrNoSleep ==
    /\ pc = "connect"
    /\ UNCHANGED <<beVars, httpVars>>
    /\ attempts' = Min(attempts + 1, MaxAttempts)
    /\ log' = Push(log, [ev |-> "connect_err", d |-> 0])
    /\ pc' = "connect"
    /\ UNCHANGED <<settingsFile, pushModules, backoff, pushImpl, httpSpawned,
                   liveConns, loops, sleepLeft, sleptFor>>

\* main.rs 58-66: init_component_connection returned Err; the sleep starts.
ConnectErr ==
    /\ pc = "connect"
    /\ UNCHANGED <<beVars, httpVars>>
    /\ attempts' = Min(attempts + 1, MaxAttempts)
    /\ log' = Push(log, [ev |-> "connect_err", d |-> 0])
    /\ sleepLeft' = backoff
    /\ sleptFor' = 0
    /\ pc' = "sleep"
    /\ UNCHANGED <<settingsFile, pushModules, backoff, pushImpl, httpSpawned,
                   liveConns, loops>>

\* The clock advances while the main task sleeps.
Tick ==
    /\ pc = "sleep"
    /\ UNCHANGED <<beVars, httpVars>>
    /\ sleepLeft > 0
    /\ sleepLeft' = sleepLeft - 1
    /\ sleptFor' = sleptFor + 1
    /\ UNCHANGED <<pc, settingsFile, pushModules, backoff, pushImpl,
                   httpSpawned, liveConns, loops, attempts, log>>

\* main.rs 65, 72: the sleep is over and the loop starts again.
Wake ==
    /\ pc = "sleep"
    /\ UNCHANGED <<beVars, httpVars>>
    /\ sleepLeft = 0
    /\ log' = Push(log, [ev |-> "sleep", d |-> sleptFor])
    /\ pc' = "connect"
    /\ UNCHANGED <<settingsFile, pushModules, backoff, pushImpl, httpSpawned,
                   liveConns, loops, sleepLeft, sleptFor, attempts>>

\* A message loop that is spawned as a task instead of awaited.
ConnectOkSpawnsLoop ==
    /\ pc = "connect"
    /\ UNCHANGED <<beVars, httpVars>>
    /\ attempts' = Min(attempts + 1, MaxAttempts)
    /\ log' = Push(log, [ev |-> "connect_ok", d |-> 0])
    /\ liveConns' = liveConns + 1
    /\ loops' = loops + 1
    /\ pc' = "connect"
    /\ UNCHANGED <<settingsFile, pushModules, backoff, pushImpl, httpSpawned,
                   sleepLeft, sleptFor>>

\* main.rs 58, 67-69: init_component_connection returned Ok(component), which
\* is moved into message_loop_main_thread.
ConnectOk ==
    /\ pc = "connect"
    /\ UNCHANGED <<beVars, httpVars>>
    /\ attempts' = Min(attempts + 1, MaxAttempts)
    /\ log' = Push(log, [ev |-> "connect_ok", d |-> 0])
    /\ liveConns' = liveConns + 1
    /\ loops' = loops + 1
    /\ pc' = "message_loop"
    /\ UNCHANGED <<settingsFile, pushModules, backoff, pushImpl, httpSpawned,
                   sleepLeft, sleptFor>>

\* A message loop whose end is followed by the backoff sleep.
MessageLoopReturnSleeps ==
    /\ pc = "message_loop"
    /\ UNCHANGED <<beVars, httpVars>>
    /\ log' = Push(log, [ev |-> "loop_end", d |-> 0])
    /\ liveConns' = liveConns - 1
    /\ loops' = loops - 1
    /\ sleepLeft' = backoff
    /\ sleptFor' = 0
    /\ pc' = "sleep"
    /\ UNCHANGED <<settingsFile, pushModules, backoff, pushImpl, httpSpawned,
                   attempts>>

\* main.rs 69-72: message_loop_main_thread returned; the component it owned
\* is dropped and the loop starts again.
MessageLoopReturn ==
    /\ pc = "message_loop"
    /\ UNCHANGED <<beVars, httpVars>>
    /\ log' = Push(log, [ev |-> "loop_end", d |-> 0])
    /\ liveConns' = liveConns - 1
    /\ loops' = loops - 1
    /\ pc' = "connect"
    /\ UNCHANGED <<settingsFile, pushModules, backoff, pushImpl, httpSpawned,
                   sleepLeft, sleptFor, attempts>>

NextMain ==
    \/ LoadConfig
    \/ FpushPushNew
    \/ SpawnHttp
    \/ ConnectErr
    \/ Tick
    \/ Wake
    \/ ConnectOk
    \/ MessageLoopReturn

(***************************************************************************)
(* fpush/src/http_server.rs                                                *)
(***************************************************************************)
\* A header value is its bytes: whether all of them are visible ASCII, which
\* is what HeaderValue::to_str asks, and its text, cut after a leading
\* "application/json" when it has one.
HeaderValue(visible, text) == [visible |-> visible, text |-> text]

\* The Content-Type header of a request: absent (<<>>) or <<its value>>.
ContentTypes ==
    {<<>>,
     <<HeaderValue(TRUE, <<"application/json">>)>>,
     <<HeaderValue(TRUE, <<"application/json", "; charset=utf-8">>)>>,
     <<HeaderValue(TRUE, <<"application/json", "x">>)>>,
     <<HeaderValue(TRUE, <<"text/plain">>)>>,
     <<HeaderValue(FALSE, <<"text/plain", "\\xFF">>)>>}

\* str::starts_with, on a text cut after the prefix.
StartsWith(text, prefix) == Len(text) >= 1 /\ text[1] = prefix

\* The body as sent: not JSON at all, or a JSON object in which each field is
\* absent (<<>>) or a string (<<s>>).
RawBody(json, username, password, last_id, last_sent_id, device) ==
    [json |-> json, username |-> username, password |-> password,
     last_id |-> last_id, last_sent_id |-> last_sent_id, device |-> device]

Opt(S) == {<<>>} \cup {<<x>> : x \in S}

RawBodies ==
    {RawBody(FALSE, <<>>, <<>>, <<>>, <<>>, <<>>)}
        \cup {RawBody(TRUE, u, pw, l, ls, d) :
                u \in Opt({"", "user"}), pw \in Opt({"", "pass"}),
                l \in Opt({"", "123"}), ls \in Opt({"", "456"}),
                d \in Opt({"device1"})}

\* serde's Deserialize of FetchMessagesRequest: username, password and device
\* are required, last_id and last_sent_id default to None.
DeserializeRequest(raw) ==
    IF raw.json /\ raw.username # <<>> /\ raw.password # <<>> /\ raw.device # <<>>
    THEN <<[username |-> raw.username[1], password |-> raw.password[1],
            last_id |-> raw.last_id, last_sent_id |-> raw.last_sent_id,
            device |-> raw.device[1]]>>
    ELSE <<>>

\* The media type the web::Json extractor takes: application/json, with or
\* without parameters, in a header that is a string.
ExtractorTakes(ct) ==
    /\ ct # <<>>
    /\ ct[1].visible
    /\ StartsWith(ct[1].text, "application/json")
    /\ Len(ct[1].text) = 1 \/ ct[1].text[2] = "; charset=utf-8"

\* The argument body: Option<web::Json<FetchMessagesRequest>>: None (<<>>)
\* when the extractor fails.
JsonExtract(ct, raw) ==
    IF ExtractorTakes(ct) THEN DeserializeRequest(raw) ELSE <<>>

IsEmptyOrNone(opt) == opt = <<>> \/ opt[1] = ""

DemoReceived ==
    [sms_id |-> "received-1001", sending_date |-> "2024-01-15T10:30:00Z",
     sender |-> <<"+1234567890">>, recipient |-> <<>>,
     sms_text |-> "Hello, this is a demo received message!",
     content_type |-> "text/plain", disposition_notification |-> <<FALSE>>,
     displayed |-> <<FALSE>>, stream_id |-> <<"stream-recv-1">>]

DemoSent ==
    [sms_id |-> "sent-2001", sending_date |-> "2024-01-15T11:45:00Z",
     sender |-> <<>>, recipient |-> <<"+9876543210">>,
     sms_text |-> "This is a demo sent message!",
     content_type |-> "text/plain", disposition_notification |-> <<TRUE>>,
     displayed |-> <<>>, stream_id |-> <<"stream-sent-1">>]

\* The order of the sending dates that occur.
DateRank(date) ==
    CASE date = "2024-01-15T10:30:00Z" -> 1
      [] date = "2024-01-15T11:45:00Z" -> 2
      [] OTHER -> 0

\* sort_by on sending_date, ascending and stable.
RECURSIVE SortBySendingDate(_)
SortBySendingDate(l) ==
    IF Len(l) <= 1 THEN l
    ELSE LET rest == SortBySendingDate(Tail(l))
             before == SelectSeq(rest,
                 LAMBDA m : DateRank(m.sending_date) < DateRank(Head(l).sending_date))
             after == SelectSeq(rest,
                 LAMBDA m : DateRank(m.sending_date) >= DateRank(Head(l).sending_date))
         IN before \o <<Head(l)>> \o after

\* http_server.rs 142-159, 184.
ReceivedSmss(body) ==
    SortBySendingDate(IF IsEmptyOrNone(body.last_id) THEN <<DemoReceived>> ELSE <<>>)

\* A sent list that is decided by last_id.
SentSmssByLastId(body) ==
    SortBySendingDate(IF IsEmptyOrNone(body.last_id) THEN <<DemoSent>> ELSE <<>>)

\* http_server.rs 143, 161-181, 185.
SentSmss(body) ==
    SortBySendingDate(IF IsEmptyOrNone(body.last_sent_id) THEN <<DemoSent>> ELSE <<>>)

ErrorResponse(status, message) ==
    [status |-> status, content_type |-> "application/json",
     json |-> [error |-> message]]

\* http_server.rs 84-202: the response to a request with Content-Type ct and
\* extracted body, handled at time now.
fetch_messages(ct, body, now) ==
    IF ct # <<>> /\ ct[1].visible /\ ~StartsWith(ct[1].text, "application/json")
    THEN ErrorResponse(415, "Content-Type must be application/json")
    ELSE IF ct = <<>>
    THEN ErrorResponse(415, "Content-Type must be application/json")
    ELSE IF body = <<>>
    THEN ErrorResponse(400, "Invalid JSON body")
    ELSE IF body[1].username = "" \/ body[1].password = ""
    THEN ErrorResponse(401,
             "Invalid credentials: username and password must not be empty")
    ELSE [status |-> 200, content_type |-> "application/json",
          json |-> [date |-> now,
                    received_smss |-> ReceivedSmss(body[1]),
                    sent_smss |-> SentSmss(body[1])]]

Times == {"2026-01-01T00:00:00+00:00", "2026-01-01T00:00:01+00:00"}

\* A POST /fetch_messages arrives.
Arrive(ct, raw) ==
    /\ httpReq = <<>> \/ httpRes # <<>>
    /\ httpReq' = <<[ct |-> ct, raw |-> raw]>>
    /\ httpRes' = <<>>
    /\ UNCHANGED <<mainVars, beVars>>

\* The handler runs and answers.
Handle(now) ==
    /\ httpReq # <<>>
    /\ httpRes = <<>>
    /\ httpRes' = <<fetch_messages(httpReq[1].ct,
                                   JsonExtract(httpReq[1].ct, httpReq[1].raw),
                                   now)>>
    /\ UNCHANGED httpReq
    /\ UNCHANGED <<mainVars, beVars>>

NextHttp ==
    \/ \E ct \in ContentTypes, raw \in RawBodies : Arrive(ct, raw)
    \/ \E now \in Times : Handle(now)

(***************************************************************************)
(* Specifications                                                          *)
(***************************************************************************)
\* The backend, not yet constructed, with no send in flight.
BackendOff ==
    /\ cfg = AcrobitsConfigDefault
    /\ initRes = <<>>
    /\ instance = <<>>
    /\ sends = [i \in Sends |-> IdleSend]

HttpOff ==
    /\ httpReq = <<>>
    /\ httpRes = <<>>

\* main() before its first step, with a fixed settings file.
MainOff ==
    /\ pc = "load_config"
    /\ settingsFile = "ok"
    /\ pushModules = <<>>
    /\ backoff = 0
    /\ pushImpl = <<>>
    /\ httpSpawned = FALSE
    /\ liveConns = 0
    /\ loops = 0
    /\ sleepLeft = 0
    /\ sleptFor = 0
    /\ attempts = 0
    /\ log = <<>>

\* The process: start-up and the connection loop.
Init == InitMain /\ BackendOff /\ HttpOff

Spec == Init /\ [][NextMain]_vars

InitBackend ==
    /\ cfg \in Configs
    /\ initRes = <<>>
    /\ instance = <<>>
    /\ sends = [i \in Sends |-> IdleSend]

\* One backend: its construction and the send calls in flight on it.
InitSends == InitBackend /\ MainOff /\ HttpOff

SpecBackend == InitSends /\ [][NextBackend]_vars

\* A send that has posted its request and holds a well-formed answer, for
\* every code a u16 can hold.
InitCodes ==
    /\ cfg = AcrobitsConfigNew(DefaultEndpoint, "app-1")
    /\ initRes = <<FpushAcrobitsInit(cfg)>>
    /\ instance = <<FpushAcrobitsInit(cfg).val>>
    /\ \E token \in Tokens, text \in Texts, code \in 0..MaxCode :
          sends = [i \in Sends |->
                     IF i = 1
                     THEN [pc |-> "awaiting", token |-> token,
                           posts |-> <<[url |-> cfg.endpoint,
                                        json |-> AcrobitsRequest(cfg.app_id, token)]>>,
                           resp |-> <<WireResponse("ok", TRUE, code, <<text>>)>>,
                           result |-> <<>>]
                     ELSE IdleSend]

\* The end of send over the whole range of provider codes.
InitAllCodes == InitCodes /\ MainOff /\ HttpOff

SpecCodes == InitAllCodes /\ [][NextCodes]_vars

\* The tokio runtime keeps running the main task: each start-up step is taken,
\* a connect attempt returns, the clock advances and a finished sleep wakes
\* the task. A message loop may run forever.
FairSpec ==
    /\ Spec
    /\ WF_vars(LoadConfig)
    /\ WF_vars(FpushPushNew)
    /\ WF_vars(SpawnHttp)
    /\ WF_vars(ConnectErr \/ ConnectOk)
    /\ WF_vars(Tick)
    /\ WF_vars(Wake)

InitHttp == HttpOff /\ MainOff /\ BackendOff

\* The demo endpoint: requests arrive and are answered.
SpecHttp == InitHttp /\ [][NextHttp]_vars

(***************************************************************************)
(* Claims about main.rs                                                    *)
(***************************************************************************)
LoopPcs == {"connect", "sleep", "message_loop"}

Last(l) == l[Len(l)]

\* In the remembered events a failed connect is followed by one sleep of the
\* configured interval, and a sleep by a connect attempt.
LogAlternates ==
    /\ \A k \in 1..Len(log) :
          /\ (log[k].ev = "connect_err" /\ k < Len(log))
                => log[k + 1] = [ev |-> "sleep", d |-> backoff]
          /\ (log[k].ev = "sleep" /\ k < Len(log))
                => log[k + 1].ev \in {"connect_err", "connect_ok"}
    /\ (log # <<>> /\ Last(log).ev = "connect_err") => pc = "sleep"
    /\ (log # <<>> /\ Last(log).ev = "sleep") => pc = "connect"
    /\ pc = "sleep" => sleepLeft + sleptFor = backoff

\* Every sleep directly follows a failed connect and lasts the configured
\* interval.
SleepOnlyAfterConnectErr ==
    /\ \A k \in 1..Len(log) :
          log[k].ev = "sleep" =>
              /\ log[k].d = backoff
              /\ k > 1 => log[k - 1].ev = "connect_err"
    /\ pc = "sleep" =>
          /\ log # <<>>
          /\ Last(log).ev = "connect_err"

\* C1: when every connect attempt fails the connection loop never exits and
\* retries for ever: each failed attempt is followed by exactly one sleep of
\* the configured interval, which never changes, and then by another attempt.
C1_RetriesForever ==
    /\ []LogAlternates
    /\ [][(pc \in LoopPcs) => (pc' \in LoopPcs)]_vars
    /\ [][(backoff' = backoff)]_vars
    /\ [][(pc = "connect" /\ pc' # "message_loop") =>
            (pc' = "sleep" /\ sleepLeft' = backoff /\ sleptFor' = 0)]_vars
    /\ [][(pc = "sleep") => (pc' \in {"sleep", "connect"})]_vars
    /\ ([](pc \notin {"panic", "message_loop"})
            => ([]<>(pc = "connect") /\ []<>(pc = "sleep")))

\* C1 witness: the remembered events are all failed attempts and sleeps of a
\* non-zero interval, and a further attempt is about to be made.
C1_Witness ==
    /\ pc = "connect"
    /\ Len(log) = LogLen
    /\ backoff > 0
    /\ attempts >= 2
    /\ \A k \in 1..Len(log) : log[k].ev \in {"connect_err", "sleep"}

C3_OneConnection ==
    /\ liveConns <= 1
    /\ loops <= 1
    /\ loops = liveConns
    /\ pc \in {"connect", "sleep"} => (liveConns = 0 /\ loops = 0)
    /\ pc = "message_loop" => (liveConns = 1 /\ loops = 1)

\* C3 witness: a second message loop runs after the first one returned and
\* after a failed connect.
C3_Witness ==
    /\ pc = "message_loop"
    /\ liveConns = 1
    /\ \E j, k \in 1..Len(log) : log[j].ev = "loop_end" /\ log[k].ev = "connect_err"

StartupFails ==
    \/ settingsFile # "ok"
    \/ \E k \in DOMAIN pushModules : ~FpushAcrobitsInit(pushModules[k]).ok

Outcome(res) ==
    CASE res.ok -> "Delivered"
      [] ~res.ok /\ res.err = "TokenBlocked" -> "TokenBlocked"
      [] ~res.ok /\ res.err = "PushEndpointPersistent" -> "PermanentFailure"
      [] ~res.ok /\ res.err = "PushEndpointTmp" -> "TransientFailure"
      [] ~res.ok /\ res.err = "CertLoading" -> "InitFailure"
      [] ~res.ok /\ res.err = "Unknown" -> "Unknown"
      [] OTHER -> "none"

Started == {i \in Sends : sends[i].pc # "idle"}
Done == {i \in Sends : sends[i].pc = "done"}

\* The answer is a response the backend can read: no request error, a JSON
\* body, a code that fits u16 and a response text.
WellFormed(r) == r.net = "ok" /\ r.json /\ r.code \in 0..MaxCode /\ r.text # <<>>

\* C5: init of a configuration with an empty application identifier fails
\* with InitFailure (PushError::CertLoading) and leaves no instance, whatever
\* the endpoint; with a non-empty identifier it succeeds and the instance
\* holds a copy of the configuration.
C5_InitChecksAppId ==
    initRes # <<>> =>
        IF cfg.app_id = ""
        THEN /\ ~initRes[1].ok
             /\ Outcome(initRes[1]) = "InitFailure"
             /\ instance = <<>>
             /\ Started = {}
        ELSE /\ initRes[1].ok
             /\ initRes[1].val.config = cfg
             /\ instance = <<initRes[1].val>>

\* C5 witness: init has run on the Default configuration.
C5_Witness ==
    /\ initRes # <<>>
    /\ cfg = AcrobitsConfigDefault
    /\ ~initRes[1].ok

\* C6: for a well-formed answer the result of send is decided by the code
\* alone: 200 Delivered, 404 TokenBlocked, 400 PermanentFailure, 500
\* TransientFailure, any other code of 0..65535 Unknown with that code.
C6_CodeMapping ==
    \A i \in Done :
        LET r == sends[i].resp[1]
            res == sends[i].result[1]
        IN WellFormed(r) =>
            /\ Len(sends[i].result) = 1
            /\ Outcome(res) =
                  (CASE r.code = 200 -> "Delivered"
                     [] r.code = 404 -> "TokenBlocked"
                     [] r.code = 400 -> "PermanentFailure"
                     [] r.code = 500 -> "TransientFailure"
                     [] OTHER -> "Unknown")
            /\ Outcome(res) = "Unknown" => res.code = r.code

\* C6 witness: a send has returned Unknown(299) for token tok-2 and the
\* response text "gone".
C6_Witness ==
    \E i \in Done :
        /\ sends[i].resp[1] = WireResponse("ok", TRUE, 299, <<"gone">>)
        /\ sends[i].token = "tok-2"
        /\ sends[i].result = <<PushErrUnknown(299)>>

\* C7: send always returns a result, and a request error or an answer that
\* does not parse gives TransientFailure.
C7_FailuresAreTransient ==
    /\ \A i \in Sends : sends[i].pc = "done" <=> Len(sends[i].result) = 1
    /\ \A i \in Done :
          /\ Outcome(sends[i].result[1]) \in
                {"Delivered", "TokenBlocked", "PermanentFailure",
                 "TransientFailure", "Unknown"}
          /\ ~WellFormed(sends[i].resp[1])
                => Outcome(sends[i].result[1]) = "TransientFailure"

\* C7 witness: one send has returned after a request error that is neither a
\* timeout nor a connect error, another after a body whose code does not fit.
C7_Witness ==
    \E i, j \in Done :
        /\ sends[i].resp[1].net = "other"
        /\ sends[j].resp[1].net = "ok"
        /\ sends[j].resp[1].json
        /\ sends[j].resp[1].code > MaxCode

\* C9: whatever the interleaving of the sends on one instance, the instance
\* keeps its configuration, each send has issued one POST, to the configured
\* endpoint, carrying its own token and the configured application identifier,
\* and the result of a send is the one its own answer calls for.
C9_ConcurrentSends ==
    /\ instance # <<>> =>
          instance = <<[client |-> "reqwest::Client", config |-> cfg]>>
    /\ Started # {} => instance # <<>>
    /\ \A i \in Started :
          /\ Len(sends[i].posts) = 1
          /\ sends[i].posts[1].url = cfg.endpoint
          /\ sends[i].posts[1].json.DeviceToken = sends[i].token
          /\ sends[i].posts[1].json.AppId = cfg.app_id
          /\ sends[i].posts[1].json.verb = "NotifyGenericTextMessage"
    /\ \A i \in Done :
          LET r == sends[i].resp[1]
          IN Outcome(sends[i].result[1]) =
                (CASE ~WellFormed(r) -> "TransientFailure"
                   [] WellFormed(r) /\ r.code = 200 -> "Delivered"
                   [] WellFormed(r) /\ r.code = 404 -> "TokenBlocked"
                   [] WellFormed(r) /\ r.code = 400 -> "PermanentFailure"
                   [] WellFormed(r) /\ r.code = 500 -> "TransientFailure"
                   [] OTHER -> "Unknown")

\* C9 witness: two sends with different tokens were in flight together; one
\* has returned Delivered while the other, answered 404, has yet to resume.
C9_Witness ==
    \E i, j \in Sends :
        /\ sends[i].pc = "done"
        /\ sends[i].result = <<PushOk>>
        /\ sends[j].pc = "awaiting"
        /\ sends[j].resp # <<>>
        /\ sends[j].resp[1].code = 404
        /\ sends[i].token # sends[j].token

(***************************************************************************)
(* Claims about http_server.rs                                             *)
(***************************************************************************)
\* The Content-Type names JSON: application/json, with or without parameters.
CtIsJson(ct) ==
    /\ ct # <<>>
    /\ ct[1].visible
    /\ ct[1].text[1] = "application/json"
    /\ Len(ct[1].text) = 1 \/ ct[1].text[2] = "; charset=utf-8"

\* C8 as stated: a missing or non-JSON Content-Type gives 415 whatever the
\* body; otherwise an unparseable body gives 400; otherwise an empty username
\* or password gives 401; otherwise 200. Every response but 200 carries a JSON
\* body with an error field.
C8_StatusPrecedence ==
    httpRes # <<>> =>
        LET ct == httpReq[1].ct
            body == DeserializeRequest(httpReq[1].raw)
            res == httpRes[1]
        IN /\ res.status =
                 (IF ~CtIsJson(ct) THEN 415
                  ELSE IF body = <<>> THEN 400
                  ELSE IF body[1].username = "" \/ body[1].password = "" THEN 401
                  ELSE 200)
           /\ res.status # 200 =>
                 /\ res.content_type = "application/json"
                 /\ "error" \in DOMAIN res.json

Ids(l) == [k \in 1..Len(l) |-> l[k].sms_id]

\* C10: in a 200 response received_smss is the one demo received message when
\* last_id is absent or empty and is empty otherwise, sent_smss is the one demo
\* sent message when last_sent_id is absent or empty and is empty otherwise,
\* each whatever the other and whatever username, password and device.
C10_DemoLists ==
    (httpRes # <<>> /\ httpRes[1].status = 200) =>
        LET raw == httpReq[1].raw
            json == httpRes[1].json
        IN /\ json.received_smss =
                 (IF raw.last_id \in {<<>>, <<"">>} THEN <<DemoReceived>> ELSE <<>>)
           /\ json.sent_smss =
                 (IF raw.last_sent_id \in {<<>>, <<"">>} THEN <<DemoSent>> ELSE <<>>)
           /\ Ids(json.received_smss) \in {<<>>, <<"received-1001">>}
           /\ Ids(json.sent_smss) \in {<<>>, <<"sent-2001">>}

\* C10 witness: a 200 response with the demo received message and no sent one.
C10_Witness ==
    /\ httpRes # <<>>
    /\ httpRes[1].status = 200
    /\ httpReq[1].raw.last_id = <<>>
    /\ httpReq[1].raw.last_sent_id = <<"456">>
    /\ Ids(httpRes[1].json.received_smss) = <<"received-1001">>
    /\ httpRes[1].json.sent_smss = <<>>

====
